---- MODULE Spec2Model ----
(***************************************************************************)
(* Model of Mystic::Status::Status and Mystic::Status::StatusOr<T>         *)
(* (Include/MysticCore/Status/StatusOr.h).                                 *)
(*                                                                         *)
(* A StatusOr<T> object is a slot with the three data members of the class *)
(* (m_Status, m_IsValue, m_Storage).  m_Storage is modelled by what the    *)
(* bytes hold: whether a T object is currently constructed in them (its    *)
(* lifetime has begun and its destructor has not run) and that T's value.  *)
(* Every public operation of the class is one action.                      *)
(***************************************************************************)
EXTENDS Integers, Sequences, FiniteSets, TLC

\* ---------------------------------------------------------------- bounds
MaxVal    == 2      \* T takes the values 1..MaxVal
MaxCode   == 2      \* status codes 0..MaxCode are used as inputs
MaxLeaked == 1      \* the count of lost T objects saturates here
MaxRawCode == 17    \* StatusCode objects hold the values 0..MaxRawCode
MaxOps    == 3      \* a function body has 1..MaxOps MYSTIC_RETURN_IF_ERROR lines

\* ------------------------------------------------------- program constants
OK == 0             \* StatusCode::OK

\* The value a moved-from T may be left with when the move empties it.
Unspecified == 0

\* The StatusOr<T> objects of the program: two variables, as every
\* operation of the class involves at most two objects.
Slots    == {"a", "b"}
Values   == 1..MaxVal
Codes    == 0..MaxCode

\* The std::string messages used, as sequences of characters: the empty
\* string and a non-empty one.
Messages == {<< >>, <<"x">>}

Min(a, b) == IF a < b THEN a ELSE b

\* ----------------------------------------------------------------- Status
\* Mutant: the default constructor leaves a message behind.
Status_Default_WithMessage == [m_Code |-> OK, m_Message |-> <<"x">>]

\* Status(): code OK, default-constructed (empty) message.
Status_Default == [m_Code |-> OK, m_Message |-> << >>]

\* Status(StatusCode code, std::string message)
Status_Ctor(code, message) == [m_Code |-> code, m_Message |-> message]

\* Status::OK()
Status_OK == Status_Default

\* Status OkStatus() { return Status::OK(); }
OkStatus == Status_OK

\* Mutant: ok() also accepts any status without a message.
Status_ok_OrNoMessage(st) == st.m_Code = OK \/ st.m_Message = << >>

\* Status::ok()
Status_ok(st) == st.m_Code = OK

\* The states std::move may leave a std::string in: valid but unspecified;
\* the implementations leave it unchanged or empty.
MovedFromMessages(m) == {m, << >>}

\* The states a move may leave a T in (a trivially copyable T keeps its
\* value, a resource-owning T gives it up).
MovedFromValues(v) == {v, Unspecified}

\* --------------------------------------------------------------- storage
\* Bytes in which no T was constructed, or whose T was destroyed.
RawStorage == [constructed |-> FALSE, val |-> Unspecified]

\* new (m_Storage) T(v)
PlacementNew(v) == [constructed |-> TRUE, val |-> v]

\* What reading *reinterpret_cast<T*>(m_Storage) can yield: the T's value
\* when one is constructed there, anything when none is (undefined).
ReadStorage(stg) ==
    IF stg.constructed THEN {stg.val} ELSE Values \cup {Unspecified}

\* A slot in which no StatusOr object exists.
NoObject ==
    [alive |-> FALSE, m_IsValue |-> FALSE, m_Status |-> Status_Default,
     m_Storage |-> RawStorage]

VARIABLES
    obj,        \* obj[s]: the StatusOr<T> object in slot s
    aborted,    \* a fatal contract check has terminated the process
    leaked,     \* T objects lost: never destroyed and no longer reachable
    overwrote,  \* a T was constructed over a constructed T
    badDtor,    \* ~T() ran on storage holding no constructed T
    misuse,     \* a StatusOr was constructed from an OK status, against
                \* the constructor's precondition
    last,       \* the last operation: its operands, the objects before it,
                \* and what it did
    call,       \* the last call on a Status or a StatusCode, and its result
    run,        \* a function body of MYSTIC_RETURN_IF_ERROR lines in execution
    build       \* the last preprocessing of a detection header: the
                \* predefined macros it saw and what it defined

vars == <<obj, aborted, leaked, overwrote, badDtor, misuse, last, call, run, build>>

\* StatusOr::ok()
ok(o) == o.m_IsValue

\* StatusOr::status()
status(o) == o.m_Status

\* ------------------------------------------------------------- history
\* The operations that move out of their source, and the operations whose
\* behaviour on a moved-from object the class documents.
MoveOps   == {"MoveCtor", "MoveAssign", "ValueRvalue"}
FollowOps == {"Dtor", "ValueConstRef", "ValueRef", "ValueRvalue"}

NoCore == [op |-> "none", dst |-> "a", src |-> "a", hadValue |-> FALSE]

Core(l) ==
    [op |-> l.op, dst |-> l.dst, src |-> l.src,
     hadValue |-> l.pre[l.src].m_IsValue]

\* The operation before this one, remembered when it was a move and this
\* one acts on the object it moved from.
Keep(name, d) ==
    IF last.op \in MoveOps /\ ~last.fatal /\ name \in FollowOps /\ d = last.src
    THEN Core(last) ELSE NoCore

\* The record of an operation.  nCtor / nDtor count the T objects
\* constructed / destroyed in container storage by the operation; ret is
\* the T returned (Unspecified when none); fatal says a check fired.  arg
\* and argStatus are the T and the Status the caller passed (the defaults
\* when none); nCopyMove counts the calls of T's copy and move
\* constructors the operation makes.
Op(name, d, s, ret, nCtor, nDtor, fatal) ==
    [op |-> name, dst |-> d, src |-> s, pre |-> obj,
     ret |-> ret, nCtor |-> nCtor, nDtor |-> nDtor, fatal |-> fatal,
     arg |-> Unspecified, argStatus |-> Status_Default, nCopyMove |-> 0,
     prev |-> Keep(name, d)]

NoOp ==
    [op |-> "none", dst |-> "a", src |-> "a", pre |-> [s \in Slots |-> NoObject],
     ret |-> Unspecified, nCtor |-> 0, nDtor |-> 0, fatal |-> FALSE,
     arg |-> Unspecified, argStatus |-> Status_Default, nCopyMove |-> 0,
     prev |-> NoCore]

\* A call on a Status or a StatusCode: the function, the code and message
\* it was given, and what it returned (a bool for ok(), a string for the
\* conversions) or that it crashed.
Call(fn, code, message, isOk, out) ==
    [fn |-> fn, code |-> code, message |-> message, ok |-> isOk,
     crashed |-> out.crashed, str |-> out.str, header |-> ""]

NoString == [crashed |-> FALSE, str |-> ""]

NoCall == Call("none", OK, << >>, TRUE, NoString)

\* No function body is in execution.
NoRun ==
    [n |-> 0, pc |-> 0, at |-> "idle", status_ |-> Status_Default,
     evaluated |-> << >>, ret |-> Status_Default]

\* A translation unit that has not included a detection header yet (each
\* header is `#pragma once`: it is preprocessed once per translation unit).
NoBuild == [header |-> "none"]

Init ==
    /\ obj = [s \in Slots |-> NoObject]
    /\ aborted = FALSE
    /\ leaked = 0
    /\ overwrote = FALSE
    /\ badDtor = FALSE
    /\ misuse = FALSE
    /\ last = NoOp
    /\ call = NoCall
    /\ run = NoRun
    /\ build = NoBuild

\* ------------------------------------------------------ contract checks
\* MYSTIC_CHECK(cond): the fatal contract check; it terminates the process
\* when cond is false, in every build.
CheckFires(cond) == ~cond

\* MYSTIC_DCHECK(cond): the debug-only contract check.  Whether it is
\* compiled in depends on the build: when cond is false it may fire or not.
DCheckFires(cond) == IF cond THEN {FALSE} ELSE {TRUE, FALSE}

\* A process terminated by a contract check: no object is touched.
Abort(name, d, s) ==
    /\ aborted' = TRUE
    /\ last' = Op(name, d, s, Unspecified, 0, 0, TRUE)
    /\ UNCHANGED <<obj, leaked, overwrote, badDtor>>

\* One more T object lost.
LeakOne(n) == Min(n + 1, MaxLeaked)

\* ------------------------------------------------------- T and Status
\* What T's destructor call `reinterpret_cast<T*>(m_Storage)->~T()` leaves.
DestroyT(stg) == RawStorage

\* What `*reinterpret_cast<T*>(m_Storage) = v` (T's assignment) leaves: the
\* T object that was there, with the new value.
AssignT(stg, v) == [stg EXCEPT !.val = v]

\* What `x = std::move(st)` leaves in st, a Status: the code (an enum) is
\* copied, the message is moved from.
MovedFromStatus(st) ==
    {[m_Code |-> st.m_Code, m_Message |-> m] : m \in MovedFromMessages(st.m_Message)}

\* What moving the T out of storage leaves there: the same T object, moved
\* from when one is constructed; untouched bytes otherwise.
MovedFromStorage(stg) ==
    IF stg.constructed
    THEN {[stg EXCEPT !.val = w] : w \in MovedFromValues(stg.val)}
    ELSE {stg}

\* ------------------------------------------------------- constructors
\* Mutant: the value constructor initialises m_IsValue(false).
ValueCtor_Object_NoFlag(v) ==
    [alive |-> TRUE, m_IsValue |-> FALSE, m_Status |-> Status_OK,
     m_Storage |-> PlacementNew(v)]

\* StatusOr(T value) : m_IsValue(true), m_Status(Status::OK())
ValueCtor_Object(v) ==
    [alive |-> TRUE, m_IsValue |-> TRUE, m_Status |-> Status_OK,
     m_Storage |-> PlacementNew(v)]

ValueCtor(d, v) ==
    /\ ~aborted
    /\ UNCHANGED <<call, run, build>>
    /\ ~obj[d].alive
    /\ obj' = [obj EXCEPT ![d] = ValueCtor_Object(v)]
    /\ last' = [Op("ValueCtor", d, d, Unspecified, 1, 0, FALSE)
                   EXCEPT !.arg = v, !.nCopyMove = 1]
    /\ UNCHANGED <<aborted, leaked, overwrote, badDtor, misuse>>

\* Mutant: the status constructor leaves m_Status default-constructed.
StatusCtor_Object_DropsStatus(st) ==
    [alive |-> TRUE, m_IsValue |-> FALSE, m_Status |-> Status_Default,
     m_Storage |-> RawStorage]

\* StatusOr(Status status) : m_IsValue(false), m_Status(std::move(status))
StatusCtor_Object(st) ==
    [alive |-> TRUE, m_IsValue |-> FALSE, m_Status |-> st,
     m_Storage |-> RawStorage]

StatusCtor(d, code, message) ==
    /\ ~aborted
    /\ UNCHANGED <<call, run, build>>
    /\ ~obj[d].alive
    /\ misuse' = (misuse \/ code = OK)
       \* the check reads the parameter after it was moved from: its code
       \* is what it was
    /\ \E fires \in DCheckFires(~Status_ok(Status_Ctor(code, message))) :
       IF fires
       THEN /\ aborted' = TRUE
            /\ last' = [Op("StatusCtor", d, d, Unspecified, 0, 0, TRUE)
                           EXCEPT !.argStatus = Status_Ctor(code, message)]
            /\ UNCHANGED <<obj, leaked, overwrote, badDtor>>
       ELSE /\ obj' = [obj EXCEPT ![d] = StatusCtor_Object(Status_Ctor(code, message))]
            /\ last' = [Op("StatusCtor", d, d, Unspecified, 0, 0, FALSE)
                           EXCEPT !.argStatus = Status_Ctor(code, message)]
            /\ UNCHANGED <<aborted, leaked, overwrote, badDtor>>

\* Mutant: the in-place constructor initialises m_IsValue(false).
InPlaceCtor_Object_NoFlag(v) ==
    [alive |-> TRUE, m_IsValue |-> FALSE, m_Status |-> Status_OK,
     m_Storage |-> PlacementNew(v)]

\* StatusOr(in_place_t, Args&&...) : m_IsValue(true), m_Status(Status::OK())
InPlaceCtor_Object(v) ==
    [alive |-> TRUE, m_IsValue |-> TRUE, m_Status |-> Status_OK,
     m_Storage |-> PlacementNew(v)]

InPlaceCtor(d, v) ==
    /\ ~aborted
    /\ UNCHANGED <<call, run, build>>
    /\ ~obj[d].alive
    /\ obj' = [obj EXCEPT ![d] = InPlaceCtor_Object(v)]
    /\ last' = [Op("InPlaceCtor", d, d, Unspecified, 1, 0, FALSE)
                   EXCEPT !.arg = v]
    /\ UNCHANGED <<aborted, leaked, overwrote, badDtor, misuse>>

\* Mutant: the destructor calls ~T() without looking at m_IsValue.
Dtor_CallsDtorT_Always(o) == TRUE

\* ~StatusOr(): `if (m_IsValue)`, whether T's destructor is called.
Dtor_CallsDtorT(o) == o.m_IsValue

\* ~StatusOr()
Dtor(s) ==
    /\ ~aborted
    /\ UNCHANGED <<call, run, build>>
    /\ obj[s].alive
    /\ LET o     == obj[s]
           runs  == Dtor_CallsDtorT(o)
           after == IF runs THEN DestroyT(o.m_Storage) ELSE o.m_Storage
       IN  /\ badDtor' = (badDtor \/ (runs /\ ~o.m_Storage.constructed))
           /\ leaked' = IF after.constructed THEN LeakOne(leaked) ELSE leaked
           /\ last' = Op("Dtor", s, s, Unspecified, 0, IF runs THEN 1 ELSE 0, FALSE)
    /\ obj' = [obj EXCEPT ![s] = NoObject]
    /\ UNCHANGED <<aborted, overwrote, misuse>>

\* Mutant: a copy clears the source's flag, as a move does.
Copy_Other_Emptied(other) == [other EXCEPT !.m_IsValue = FALSE]

\* The source of a copy: it is taken as `const StatusOr& other`, its T is
\* read through `const T*`, and no member of it is assigned.
Copy_Other(other) == other

\* Mutant: self-assignment resets the object.
SelfAssign_Object_Reset(this) ==
    [this EXCEPT !.m_IsValue = FALSE, !.m_Status = Status_Default]

\* `if (this == &other) { return *this; }` in both assignment operators.
SelfAssign_Object(this) == this

\* StatusOr(const StatusOr& other) : m_IsValue(other.m_IsValue),
\* m_Status(other.m_Status); v is the T read from other's storage.
CopyCtor_Object(other, v) ==
    [alive |-> TRUE, m_IsValue |-> other.m_IsValue, m_Status |-> other.m_Status,
     m_Storage |-> IF other.m_IsValue THEN PlacementNew(v) ELSE RawStorage]

CopyCtor(d, s) ==
    /\ ~aborted
    /\ UNCHANGED <<call, run, build>>
    /\ obj[s].alive
    /\ ~obj[d].alive
    /\ LET other == obj[s]
       IN  IF other.m_IsValue
           THEN \E v \in ReadStorage(other.m_Storage) :
                  /\ obj' = [obj EXCEPT ![d] = CopyCtor_Object(other, v),
                                        ![s] = Copy_Other(other)]
                  /\ last' = [Op("CopyCtor", d, s, Unspecified, 1, 0, FALSE)
                              EXCEPT !.nCopyMove = 1]
           ELSE /\ obj' = [obj EXCEPT ![d] = CopyCtor_Object(other, Unspecified),
                                      ![s] = Copy_Other(other)]
                /\ last' = Op("CopyCtor", d, s, Unspecified, 0, 0, FALSE)
    /\ UNCHANGED <<aborted, leaked, overwrote, badDtor, misuse>>

\* StatusOr(StatusOr&& other) : m_IsValue(other.m_IsValue),
\* m_Status(other.m_Status).  The status is copied (other.m_Status is an
\* lvalue); the T is constructed from a const T&&, which selects T's copy
\* constructor, so other's T keeps its value.
\* Mutant: the move constructor copies the flag and the status but never
\* constructs the T.
MoveCtor_Object_NoConstruct(other, v) ==
    [alive |-> TRUE, m_IsValue |-> other.m_IsValue, m_Status |-> other.m_Status,
     m_Storage |-> RawStorage]

MoveCtor_Object(other, v) ==
    [alive |-> TRUE, m_IsValue |-> other.m_IsValue, m_Status |-> other.m_Status,
     m_Storage |-> IF other.m_IsValue THEN PlacementNew(v) ELSE RawStorage]

\* `other.m_IsValue = false;` in the branch that moved a value.
MoveCtor_Other(other) == [other EXCEPT !.m_IsValue = FALSE]

MoveCtor(d, s) ==
    /\ ~aborted
    /\ UNCHANGED <<call, run, build>>
    /\ obj[s].alive
    /\ ~obj[d].alive
    /\ LET other == obj[s]
       IN  IF other.m_IsValue
           THEN \E v \in ReadStorage(other.m_Storage) :
                  /\ obj' = [obj EXCEPT ![d] = MoveCtor_Object(other, v),
                                        ![s] = MoveCtor_Other(other)]
                  /\ last' = [Op("MoveCtor", d, s, Unspecified, 1, 0, FALSE)
                              EXCEPT !.nCopyMove = 1]
           ELSE /\ obj' = [obj EXCEPT ![d] = MoveCtor_Object(other, Unspecified)]
                /\ last' = Op("MoveCtor", d, s, Unspecified, 0, 0, FALSE)
    /\ UNCHANGED <<aborted, leaked, overwrote, badDtor, misuse>>

\* ---------------------------------------------------- copy assignment
\* Mutant: case 1 of copy assignment leaves the destination's T as it was.
CopyAssign_Case1_NoAssign(this, other, v) == this

\* Case 1: both hold a value; T's copy assignment.
CopyAssign_Case1(this, other, v) ==
    [this EXCEPT !.m_Storage = AssignT(this.m_Storage, v)]

\* Mutant: case 2 of copy assignment without `m_IsValue = true;`.
CopyAssign_Case2_NoFlag(this, other, v) ==
    [this EXCEPT !.m_Status = other.m_Status,
                 !.m_Storage = PlacementNew(v)]

\* Case 2: source holds a value, destination a status.
CopyAssign_Case2(this, other, v) ==
    [this EXCEPT !.m_Status = other.m_Status,
                 !.m_Storage = PlacementNew(v),
                 !.m_IsValue = TRUE]

\* Mutant: case 3 of copy assignment without `m_Status = other.m_Status;`.
CopyAssign_Case3_KeepsStatus(this, other) ==
    [this EXCEPT !.m_Storage = DestroyT(this.m_Storage),
                 !.m_IsValue = FALSE]

\* Case 3: source holds a status, destination a value.
CopyAssign_Case3(this, other) ==
    [this EXCEPT !.m_Storage = DestroyT(this.m_Storage),
                 !.m_IsValue = FALSE,
                 !.m_Status = other.m_Status]

\* Case 4: both hold a status.
CopyAssign_Case4(this, other) ==
    [this EXCEPT !.m_Status = other.m_Status]

\* StatusOr& operator=(const StatusOr& other)
CopyAssign(d, s) ==
    /\ ~aborted
    /\ UNCHANGED <<call, run, build>>
    /\ obj[d].alive
    /\ obj[s].alive
    /\ LET this  == obj[d]
           other == obj[s]
       IN  IF d = s
           THEN \* this == &other
                /\ obj' = [obj EXCEPT ![d] = SelfAssign_Object(this)]
                /\ last' = Op("CopyAssign", d, s, Unspecified, 0, 0, FALSE)
                /\ UNCHANGED <<leaked, overwrote, badDtor>>
           ELSE IF other.m_IsValue
           THEN IF this.m_IsValue
                THEN \E v \in ReadStorage(other.m_Storage) :
                       /\ obj' = [obj EXCEPT ![d] = CopyAssign_Case1(this, other, v),
                                    ![s] = Copy_Other(other)]
                       /\ last' = Op("CopyAssign", d, s, Unspecified, 0, 0, FALSE)
                       /\ UNCHANGED <<leaked, overwrote, badDtor>>
                ELSE \E v \in ReadStorage(other.m_Storage) :
                       /\ obj' = [obj EXCEPT ![d] = CopyAssign_Case2(this, other, v),
                                    ![s] = Copy_Other(other)]
                       /\ last' = [Op("CopyAssign", d, s, Unspecified, 1, 0, FALSE)
                              EXCEPT !.nCopyMove = 1]
                       /\ overwrote' = (overwrote \/ this.m_Storage.constructed)
                       /\ leaked' = IF this.m_Storage.constructed
                                    THEN LeakOne(leaked) ELSE leaked
                       /\ UNCHANGED badDtor
           ELSE IF this.m_IsValue
                THEN /\ obj' = [obj EXCEPT ![d] = CopyAssign_Case3(this, other),
                                    ![s] = Copy_Other(other)]
                     /\ last' = Op("CopyAssign", d, s, Unspecified, 0, 1, FALSE)
                     /\ badDtor' = (badDtor \/ ~this.m_Storage.constructed)
                     /\ UNCHANGED <<leaked, overwrote>>
                ELSE /\ obj' = [obj EXCEPT ![d] = CopyAssign_Case4(this, other),
                                    ![s] = Copy_Other(other)]
                     /\ last' = Op("CopyAssign", d, s, Unspecified, 0, 0, FALSE)
                     /\ UNCHANGED <<leaked, overwrote, badDtor>>
    /\ UNCHANGED <<aborted, misuse>>

\* ---------------------------------------------------- move assignment
\* Case 1: both hold a value; T's move assignment.
MoveAssign_Case1(this, other, v) ==
    [this EXCEPT !.m_Storage = AssignT(this.m_Storage, v)]

\* Mutant: case 2 of move assignment without
\* `m_Status = std::move(other.m_Status);`.
MoveAssign_Case2_KeepsStatus(this, other, v) ==
    [this EXCEPT !.m_Storage = PlacementNew(v),
                 !.m_IsValue = TRUE]

\* Case 2: source holds a value, destination a status.
MoveAssign_Case2(this, other, v) ==
    [this EXCEPT !.m_Status = other.m_Status,
                 !.m_Storage = PlacementNew(v),
                 !.m_IsValue = TRUE]

\* Mutant: cases 3 and 4 without `m_Status = std::move(other.m_Status);`.
MoveAssign_Case34_KeepsStatus(this, other) ==
    [this EXCEPT !.m_Storage = IF this.m_IsValue
                               THEN DestroyT(this.m_Storage) ELSE this.m_Storage,
                 !.m_IsValue = FALSE]

\* Cases 3 and 4: source holds a status; the value, if any, is destroyed.
MoveAssign_Case34(this, other) ==
    [this EXCEPT !.m_Storage = IF this.m_IsValue
                               THEN DestroyT(this.m_Storage) ELSE this.m_Storage,
                 !.m_IsValue = FALSE,
                 !.m_Status = other.m_Status]

\* Mutant: move assignment without `other.m_IsValue = false;`.
MoveAssign_Other_KeepsFlag(other, left, st) ==
    [other EXCEPT !.m_Storage = left, !.m_Status = st]

\* The source after cases 1 and 2: `other.m_IsValue = false;`, its T (left)
\* and, in case 2, its status (st) moved from.
MoveAssign_Other(other, left, st) ==
    [other EXCEPT !.m_Storage = left, !.m_Status = st, !.m_IsValue = FALSE]

\* StatusOr& operator=(StatusOr&& other) noexcept
MoveAssign(d, s) ==
    /\ ~aborted
    /\ UNCHANGED <<call, run, build>>
    /\ obj[d].alive
    /\ obj[s].alive
    /\ LET this  == obj[d]
           other == obj[s]
       IN  IF d = s
           THEN \* this == &other
                /\ obj' = [obj EXCEPT ![d] = SelfAssign_Object(this)]
                /\ last' = Op("MoveAssign", d, s, Unspecified, 0, 0, FALSE)
                /\ UNCHANGED <<leaked, overwrote, badDtor>>
           ELSE IF other.m_IsValue
           THEN IF this.m_IsValue
                THEN \E v \in ReadStorage(other.m_Storage),
                        left \in MovedFromStorage(other.m_Storage) :
                       /\ obj' = [obj EXCEPT
                                    ![d] = MoveAssign_Case1(this, other, v),
                                    ![s] = MoveAssign_Other(other, left, other.m_Status)]
                       /\ last' = Op("MoveAssign", d, s, Unspecified, 0, 0, FALSE)
                       /\ UNCHANGED <<leaked, overwrote, badDtor>>
                ELSE \E v \in ReadStorage(other.m_Storage),
                        left \in MovedFromStorage(other.m_Storage),
                        st \in MovedFromStatus(other.m_Status) :
                       /\ obj' = [obj EXCEPT
                                    ![d] = MoveAssign_Case2(this, other, v),
                                    ![s] = MoveAssign_Other(other, left, st)]
                       /\ last' = [Op("MoveAssign", d, s, Unspecified, 1, 0, FALSE)
                              EXCEPT !.nCopyMove = 1]
                       /\ overwrote' = (overwrote \/ this.m_Storage.constructed)
                       /\ leaked' = IF this.m_Storage.constructed
                                    THEN LeakOne(leaked) ELSE leaked
                       /\ UNCHANGED badDtor
           ELSE \E st \in MovedFromStatus(other.m_Status) :
                  /\ obj' = [obj EXCEPT ![d] = MoveAssign_Case34(this, other),
                                        ![s].m_Status = st]
                  /\ last' = Op("MoveAssign", d, s, Unspecified, 0,
                                IF this.m_IsValue THEN 1 ELSE 0, FALSE)
                  /\ badDtor' = (badDtor \/ (this.m_IsValue /\ ~this.m_Storage.constructed))
                  /\ UNCHANGED <<leaked, overwrote>>
    /\ UNCHANGED <<aborted, misuse>>

\* ------------------------------------------------------------ value()
\* The condition value() hands to MYSTIC_CHECK: m_Status.ok()
ValueCheck(o) == Status_ok(o.m_Status)

\* const T& value() const&
ValueConstRef(s) ==
    /\ ~aborted
    /\ UNCHANGED <<call, run, build>>
    /\ obj[s].alive
    /\ UNCHANGED misuse
    /\ IF CheckFires(ValueCheck(obj[s]))
       THEN Abort("ValueConstRef", s, s)
       ELSE \E v \in ReadStorage(obj[s].m_Storage) :
              /\ last' = Op("ValueConstRef", s, s, v, 0, 0, FALSE)
              /\ UNCHANGED <<obj, aborted, leaked, overwrote, badDtor>>

\* T& value() &
ValueRef(s) ==
    /\ ~aborted
    /\ UNCHANGED <<call, run, build>>
    /\ obj[s].alive
    /\ UNCHANGED misuse
    /\ IF CheckFires(ValueCheck(obj[s]))
       THEN Abort("ValueRef", s, s)
       ELSE \E v \in ReadStorage(obj[s].m_Storage) :
              /\ last' = Op("ValueRef", s, s, v, 0, 0, FALSE)
              /\ UNCHANGED <<obj, aborted, leaked, overwrote, badDtor>>

\* T value() &&: after the check, `m_IsValue = false;` and the T is moved
\* out of the storage (left is what stays there).
ValueRvalue_Object(o, left) ==
    [o EXCEPT !.m_IsValue = FALSE, !.m_Storage = left]

ValueRvalue(s) ==
    /\ ~aborted
    /\ UNCHANGED <<call, run, build>>
    /\ obj[s].alive
    /\ UNCHANGED misuse
    /\ IF CheckFires(ValueCheck(obj[s]))
       THEN Abort("ValueRvalue", s, s)
       ELSE \E v \in ReadStorage(obj[s].m_Storage),
               left \in MovedFromStorage(obj[s].m_Storage) :
              /\ obj' = [obj EXCEPT ![s] = ValueRvalue_Object(obj[s], left)]
              /\ last' = [Op("ValueRvalue", s, s, v, 0, 0, FALSE)
                             EXCEPT !.nCopyMove = 1]
              /\ UNCHANGED <<aborted, leaked, overwrote, badDtor>>

\* ---------------------------------------------------------- operator*
\* const T& operator*() const&
DerefConstRef(s) ==
    /\ ~aborted
    /\ UNCHANGED <<call, run, build>>
    /\ obj[s].alive
    /\ UNCHANGED misuse
    /\ IF CheckFires(ValueCheck(obj[s]))
       THEN Abort("DerefConstRef", s, s)
       ELSE \E v \in ReadStorage(obj[s].m_Storage) :
              /\ last' = Op("DerefConstRef", s, s, v, 0, 0, FALSE)
              /\ UNCHANGED <<obj, aborted, leaked, overwrote, badDtor>>

\* T& operator*() &
DerefRef(s) ==
    /\ ~aborted
    /\ UNCHANGED <<call, run, build>>
    /\ obj[s].alive
    /\ UNCHANGED misuse
    /\ IF CheckFires(ValueCheck(obj[s]))
       THEN Abort("DerefRef", s, s)
       ELSE \E v \in ReadStorage(obj[s].m_Storage) :
              /\ last' = Op("DerefRef", s, s, v, 0, 0, FALSE)
              /\ UNCHANGED <<obj, aborted, leaked, overwrote, badDtor>>

\* T&& operator*() &&: `return std::move(value());`.  Inside the member
\* function *this is an lvalue, so value() is the T& overload: m_IsValue is
\* not touched.  The caller gets an rvalue reference to the stored T and
\* may move from it (left is what stays in the storage).
DerefRvalue_Object(o, left) == [o EXCEPT !.m_Storage = left]

DerefRvalue(s) ==
    /\ ~aborted
    /\ UNCHANGED <<call, run, build>>
    /\ obj[s].alive
    /\ UNCHANGED misuse
    /\ IF CheckFires(ValueCheck(obj[s]))
       THEN Abort("DerefRvalue", s, s)
       ELSE \E v \in ReadStorage(obj[s].m_Storage),
               left \in MovedFromStorage(obj[s].m_Storage) :
              /\ obj' = [obj EXCEPT ![s] = DerefRvalue_Object(obj[s], left)]
              /\ last' = Op("DerefRvalue", s, s, v, 0, 0, FALSE)
              /\ UNCHANGED <<aborted, leaked, overwrote, badDtor>>

\* --------------------------------------------------------- operator->
\* operator->() const&: the check, then the address of the storage; ret is
\* the T the caller reaches through it.
ArrowConstRef(s) ==
    /\ ~aborted
    /\ UNCHANGED <<call, run, build>>
    /\ obj[s].alive
    /\ UNCHANGED misuse
    /\ IF CheckFires(ValueCheck(obj[s]))
       THEN Abort("ArrowConstRef", s, s)
       ELSE \E v \in ReadStorage(obj[s].m_Storage) :
              /\ last' = Op("ArrowConstRef", s, s, v, 0, 0, FALSE)
              /\ UNCHANGED <<obj, aborted, leaked, overwrote, badDtor>>

\* operator->() &
ArrowRef(s) ==
    /\ ~aborted
    /\ UNCHANGED <<call, run, build>>
    /\ obj[s].alive
    /\ UNCHANGED misuse
    /\ IF CheckFires(ValueCheck(obj[s]))
       THEN Abort("ArrowRef", s, s)
       ELSE \E v \in ReadStorage(obj[s].m_Storage) :
              /\ last' = Op("ArrowRef", s, s, v, 0, 0, FALSE)
              /\ UNCHANGED <<obj, aborted, leaked, overwrote, badDtor>>

\* ---------------------------------------------------------- value_or()
\* What a read through the returned `const T&` can yield when it is bound
\* to the by-value parameter `default_value`: the parameter is destroyed
\* when the call ends, so the reference dangles and the read is the
\* default or other bytes (Unspecified stands for every other outcome).
DanglingParam(default_value) == {default_value, Unspecified}

\* const T& value_or(T default_value) const&
\*     { return ok() ? value() : default_value; }
ValueOr(s, default_value) ==
    /\ ~aborted
    /\ UNCHANGED <<call, run, build>>
    /\ obj[s].alive
    /\ UNCHANGED misuse
    /\ IF ok(obj[s])
       THEN IF CheckFires(ValueCheck(obj[s]))
            THEN Abort("ValueOr", s, s)
            ELSE \E v \in ReadStorage(obj[s].m_Storage) :
                   /\ last' = [Op("ValueOr", s, s, v, 0, 0, FALSE)
                                  EXCEPT !.arg = default_value]
                   /\ UNCHANGED <<obj, aborted, leaked, overwrote, badDtor>>
       ELSE \E v \in DanglingParam(default_value) :
              /\ last' = [Op("ValueOr", s, s, v, 0, 0, FALSE)
                             EXCEPT !.arg = default_value]
              /\ UNCHANGED <<obj, aborted, leaked, overwrote, badDtor>>

Next ==
    \/ \E d \in Slots, v \in Values : ValueCtor(d, v)
    \/ \E d \in Slots, c \in Codes, m \in Messages : StatusCtor(d, c, m)
    \/ \E d \in Slots, v \in Values : InPlaceCtor(d, v)
    \/ \E s \in Slots : Dtor(s)
    \/ \E d, s \in Slots : CopyCtor(d, s)
    \/ \E d, s \in Slots : MoveCtor(d, s)
    \/ \E d, s \in Slots : CopyAssign(d, s)
    \/ \E d, s \in Slots : MoveAssign(d, s)
    \/ \E s \in Slots : ValueConstRef(s)
    \/ \E s \in Slots : ValueRef(s)
    \/ \E s \in Slots : ValueRvalue(s)
    \/ \E s \in Slots : DerefConstRef(s)
    \/ \E s \in Slots : DerefRef(s)
    \/ \E s \in Slots : DerefRvalue(s)
    \/ \E s \in Slots : ArrowConstRef(s)
    \/ \E s \in Slots : ArrowRef(s)
    \/ \E s \in Slots, v \in Values : ValueOr(s, v)

Spec == Init /\ [][Next]_vars

\* ================================================== Status, StatusCode
\* enum class StatusCode : uint32_t
CANCELLED           == 1
INVALID_ARGUMENT    == 2
NOT_FOUND           == 3
ALREADY_EXISTS      == 4
PERMISSION_DENIED   == 5
UNAUTHENTICATED     == 6
OUT_OF_RANGE        == 7
DEADLINE_EXCEEDED   == 8
RESOURCE_EXHAUSTED  == 9
FAILED_PRECONDITION == 10
ABORTED             == 11
UNIMPLEMENTED       == 12
INTERNAL            == 13
UNAVAILABLE         == 14
DATA_LOSS           == 15

\* The values a StatusCode object can hold: the enumeration has a fixed
\* underlying type, so every value of that type, enumerator or not.
RawCodes == 0..MaxRawCode

\* A std::string message as one string.
RECURSIVE MsgString(_)
MsgString(m) == IF m = << >> THEN "" ELSE Head(m) \o MsgString(Tail(m))

\* The string literal the switch of StatusCodeToString returns for a code.
StatusCodeToString_Literal(code) ==
    CASE code = OK                  -> "Ok"
      [] code = CANCELLED           -> "Cancelled"
      [] code = INVALID_ARGUMENT    -> "Invalid Argument"
      [] code = NOT_FOUND           -> "Not Found"
      [] code = ALREADY_EXISTS      -> "Already Exists"
      [] code = PERMISSION_DENIED   -> "Permission Denied"
      [] code = UNAUTHENTICATED     -> "Unauthenticated"
      [] code = OUT_OF_RANGE        -> "Out of Range"
      [] code = DEADLINE_EXCEEDED   -> "Deadline Exceeded"
      [] code = RESOURCE_EXHAUSTED  -> "Resource Exhausted"
      [] code = FAILED_PRECONDITION -> "Failed Precondition"
      [] code = ABORTED             -> "Aborted"
      [] code = UNIMPLEMENTED       -> "Unimplemented"
      [] code = INTERNAL            -> "Internal"
      [] code = UNAVAILABLE         -> "Unavailable"
      [] code = DATA_LOSS           -> "Data Loss"
      [] OTHER                      -> "Unknown"

\* Bytes that are not the string expected.
Garbage == "?"

\* What reading a `const std::string&` bound to a temporary std::string
\* can yield once the temporary is destroyed (undefined): the string the
\* temporary held, other bytes, or a crash.
DanglingString(s) ==
    {[crashed |-> FALSE, str |-> s],
     [crashed |-> FALSE, str |-> Garbage],
     [crashed |-> TRUE,  str |-> ""]}

\* const std::string& StatusCodeToString(StatusCode code): every return
\* statement converts a literal to a temporary std::string and returns a
\* reference to it; the temporary is destroyed before the caller reads.
StatusCodeToString(code) == DanglingString(StatusCodeToString_Literal(code))

\* ss << "[" << StatusCodeToString(m_Code) << "] " << m_Message
Status_ToString_Format(name, message) == "[" \o name \o "] " \o MsgString(message)

\* std::string Status::ToString() const
Status_ToString(st) ==
    {IF name.crashed
     THEN name
     ELSE [crashed |-> FALSE, str |-> Status_ToString_Format(name.str, st.m_Message)]
     : name \in StatusCodeToString(st.m_Code)}

\* Status(code, message).ok()
Run_Status(code, message) ==
    /\ call' = Call("Status", code, message,
                    Status_ok(Status_Ctor(code, message)), NoString)
    /\ UNCHANGED <<obj, aborted, leaked, overwrote, badDtor, misuse, last, run, build>>

\* Status::OK().ok()
Run_Status_OK ==
    /\ call' = Call("Status::OK", Status_OK.m_Code, Status_OK.m_Message,
                    Status_ok(Status_OK), NoString)
    /\ UNCHANGED <<obj, aborted, leaked, overwrote, badDtor, misuse, last, run, build>>

\* Status().ok(), code(), message()
Run_Status_Default ==
    /\ call' = Call("Status()", Status_Default.m_Code, Status_Default.m_Message,
                    Status_ok(Status_Default), NoString)
    /\ UNCHANGED <<obj, aborted, leaked, overwrote, badDtor, misuse, last, run, build>>

\* OkStatus().ok(), code(), message()
Run_OkStatus ==
    /\ call' = Call("OkStatus", OkStatus.m_Code, OkStatus.m_Message,
                    Status_ok(OkStatus), NoString)
    /\ UNCHANGED <<obj, aborted, leaked, overwrote, badDtor, misuse, last, run, build>>

\* enum class StatusCode of MysticCore/Status/StatusCode.h: the value of
\* each enumerator.
StatusCode_MysticCore ==
    [OK |-> OK, CANCELLED |-> CANCELLED, INVALID_ARGUMENT |-> INVALID_ARGUMENT,
     NOT_FOUND |-> NOT_FOUND, ALREADY_EXISTS |-> ALREADY_EXISTS,
     PERMISSION_DENIED |-> PERMISSION_DENIED, UNAUTHENTICATED |-> UNAUTHENTICATED,
     OUT_OF_RANGE |-> OUT_OF_RANGE, DEADLINE_EXCEEDED |-> DEADLINE_EXCEEDED,
     RESOURCE_EXHAUSTED |-> RESOURCE_EXHAUSTED,
     FAILED_PRECONDITION |-> FAILED_PRECONDITION, ABORTED |-> ABORTED,
     UNIMPLEMENTED |-> UNIMPLEMENTED, INTERNAL |-> INTERNAL,
     UNAVAILABLE |-> UNAVAILABLE, DATA_LOSS |-> DATA_LOSS]

\* enum class StatusCode of mystic/status/status_code.hpp (values written
\* 0x0000 .. 0x000F there): the value of each enumerator.
StatusCode_mystic ==
    [OK |-> 0, CANCELLED |-> 1, INVALID_ARGUMENT |-> 2, NOT_FOUND |-> 3,
     ALREADY_EXISTS |-> 4, PERMISSION_DENIED |-> 5, UNAUTHENTICATED |-> 6,
     OUT_OF_RANGE |-> 7, DEADLINE_EXCEEDED |-> 8, RESOURCE_EXHAUSTED |-> 9,
     FAILED_PRECONDITION |-> 10, ABORT |-> 11, UNIMPLEMENTED |-> 12,
     INTERNAL |-> 13, UNAVAILABLE |-> 14, DATA_LOSS |-> 15]

\* The two definitions of the enumeration, by header.
StatusCodeEnum ==
    [StatusCode_h |-> StatusCode_MysticCore, status_code_hpp |-> StatusCode_mystic]

\* The names a program may write after `StatusCode::`.
EnumeratorNames ==
    UNION {DOMAIN StatusCodeEnum[h] : h \in DOMAIN StatusCodeEnum}

\* static_cast<uint32_t>(StatusCode::name) with the enum of one header:
\* `ok` tells whether the header declares the name, `code` is its value.
Run_Enumerator(header, name) ==
    /\ LET enum == StatusCodeEnum[header]
           declared == name \in DOMAIN enum
       IN  call' = [Call("Enumerator", IF declared THEN enum[name] ELSE OK,
                         << >>, declared, [crashed |-> FALSE, str |-> name])
                      EXCEPT !.header = header]
    /\ UNCHANGED <<obj, aborted, leaked, overwrote, badDtor, misuse, last, run, build>>

\* StatusCodeToString(code), and a read of the string returned
Run_StatusCodeToString(code) ==
    /\ \E out \in StatusCodeToString(code) :
          call' = Call("StatusCodeToString", code, << >>, code = OK, out)
    /\ UNCHANGED <<obj, aborted, leaked, overwrote, badDtor, misuse, last, run, build>>

\* Status(code, message).ToString()
Run_ToString(code, message) ==
    /\ \E out \in Status_ToString(Status_Ctor(code, message)) :
          call' = Call("ToString", code, message,
                       Status_ok(Status_Ctor(code, message)), out)
    /\ UNCHANGED <<obj, aborted, leaked, overwrote, badDtor, misuse, last, run, build>>

NextStatus ==
    \/ \E c \in RawCodes, m \in Messages : Run_Status(c, m)
    \/ Run_Status_OK
    \/ Run_Status_Default
    \/ Run_OkStatus
    \/ \E h \in DOMAIN StatusCodeEnum, n \in EnumeratorNames : Run_Enumerator(h, n)
    \/ \E c \in RawCodes : Run_StatusCodeToString(c)
    \/ \E c \in RawCodes, m \in Messages : Run_ToString(c, m)

SpecStatus == Init /\ [][NextStatus]_vars

\* ================================================ MYSTIC_RETURN_IF_ERROR
\* A function returning Status whose body is n lines
\*     MYSTIC_RETURN_IF_ERROR(operation_i)
\* Each line expands to a declaration and an if statement:
\*     ::Mystic::Status::Status status_<line> = (operation);
\*     if (!status_<line>.ok()) return status_<line>;

\* The statuses an operation can return.
Statuses == {Status_Ctor(c, m) : c \in Codes, m \in Messages}

\* A caller enters the function: nothing is evaluated yet.
CallFunction(n) ==
    /\ run.at \in {"idle", "past", "returned"}
    /\ run' = [n |-> n, pc |-> 1, at |-> "decl", status_ |-> Status_Default,
               evaluated |-> << >>, ret |-> Status_Default]
    /\ UNCHANGED <<obj, aborted, leaked, overwrote, badDtor, misuse, last, call, build>>

\* Status status_<line> = (operation): the operation of line pc is
\* evaluated and its result bound to the line's variable.
ReturnIfError_Declare(result) ==
    /\ run.at = "decl"
    /\ run' = [run EXCEPT !.status_ = result,
                          !.evaluated = Append(@, result),
                          !.at = "if"]
    /\ UNCHANGED <<obj, aborted, leaked, overwrote, badDtor, misuse, last, call, build>>

\* Mutant: the if statement never returns.
ReturnIfError_Returns_Never(status_) == FALSE

\* The condition of the macro's if statement.
ReturnIfError_Returns(status_) == ~Status_ok(status_)

\* if (!status_<line>.ok()) return status_<line>; otherwise control falls
\* to the next line, or past the last one.
ReturnIfError_If ==
    /\ run.at = "if"
    /\ run' = IF ReturnIfError_Returns(run.status_)
              THEN [run EXCEPT !.at = "returned", !.ret = run.status_]
              ELSE IF run.pc = run.n
                   THEN [run EXCEPT !.at = "past"]
                   ELSE [run EXCEPT !.at = "decl", !.pc = @ + 1]
    /\ UNCHANGED <<obj, aborted, leaked, overwrote, badDtor, misuse, last, call, build>>

NextMacro ==
    \/ \E n \in 1..MaxOps : CallFunction(n)
    \/ \E st \in Statuses : ReturnIfError_Declare(st)
    \/ ReturnIfError_If

\* A function body runs statement after statement until it returns.
SpecMacro ==
    /\ Init
    /\ [][NextMacro]_vars
    /\ WF_vars(\E st \in Statuses : ReturnIfError_Declare(st))
    /\ WF_vars(ReturnIfError_If)

\* ==================================================== detection headers
\* A header is preprocessed in an environment of macros: a function from
\* macro names to the integer each expands to.
NoMacros == [name \in {} |-> 0]

\* #define name value. A later #define of the same name replaces the
\* earlier one when the compiler accepts it.
Define(env, name, value) ==
    [x \in DOMAIN env \cup {name} |-> IF x = name THEN value ELSE env[x]]

\* The value of an identifier in an #if expression: its expansion when it
\* is a macro, 0 when it is not.
MacroValue(env, name) == IF name \in DOMAIN env THEN env[name] ELSE 0

\* The #define directives of a list, applied in order.
RECURSIVE DefineAll(_, _)
DefineAll(env, defines) ==
    IF defines = << >> THEN env
    ELSE DefineAll(Define(env, defines[1][1], defines[1][2]), Tail(defines))

\* A list of #define directives defines some macro twice with different
\* values, which is ill-formed: compilers warn and take the later
\* definition, or reject the translation unit.
Redefines(defines) ==
    \E i, j \in 1..Len(defines) :
        i < j /\ defines[i][1] = defines[j][1] /\ defines[i][2] # defines[j][2]

\* A predefined macro that the compiler does not define.
Undefined == -1

\* --------------------------------------------------- standard detection
\* The "Standard Tags" section: six #define directives, the last of which
\* names MYSTIC_ARCH_STANDARD_CPP20 again.
StandardTagDefines ==
    << <<"MYSTIC_ARCH_STANDARD_CPP98", 199711>>,
       <<"MYSTIC_ARCH_STANDARD_CPP11", 201103>>,
       <<"MYSTIC_ARCH_STANDARD_CPP14", 201402>>,
       <<"MYSTIC_ARCH_STANDARD_CPP17", 201703>>,
       <<"MYSTIC_ARCH_STANDARD_CPP20", 202002>>,
       <<"MYSTIC_ARCH_STANDARD_CPP20", 999999>> >>

StandardTags == DefineAll(NoMacros, StandardTagDefines)

\* MYSTIC_CPP_LANG_VERSION: _MSVC_LANG when defined, else __cplusplus.
MYSTIC_CPP_LANG_VERSION(cplusplus, msvc_lang) ==
    IF msvc_lang # Undefined THEN msvc_lang ELSE cplusplus

\* The #if chain that defines MYSTIC_ARCH_STANDARD: the tag it is defined
\* as, for language version v.
MYSTIC_ARCH_STANDARD(env, v) ==
    IF v > MacroValue(env, "MYSTIC_ARCH_STANDARD_CPP20")
    THEN "MYSTIC_ARCH_STANDARD_CPP20"
    ELSE IF v >= MacroValue(env, "MYSTIC_ARCH_STANDARD_CPP20")
    THEN "MYSTIC_ARCH_STANDARD_CPP20"
    ELSE IF v >= MacroValue(env, "MYSTIC_ARCH_STANDARD_CPP17")
    THEN "MYSTIC_ARCH_STANDARD_CPP17"
    ELSE IF v >= MacroValue(env, "MYSTIC_ARCH_STANDARD_CPP14")
    THEN "MYSTIC_ARCH_STANDARD_CPP14"
    ELSE IF v >= MacroValue(env, "MYSTIC_ARCH_STANDARD_CPP11")
    THEN "MYSTIC_ARCH_STANDARD_CPP11"
    ELSE IF v >= MacroValue(env, "MYSTIC_ARCH_STANDARD_CPP98")
    THEN "MYSTIC_ARCH_STANDARD_CPP98"
    ELSE "MYSTIC_ARCH_STANDARD_UNKNOWN"

\* The guardrail's #if: the #error is reached.
StandardGuardrail(env, tag, allow_unknown) ==
    /\ ~allow_unknown
    /\ MacroValue(env, tag) = MacroValue(env, "MYSTIC_ARCH_STANDARD_UNKNOWN")

\* The #if chain that defines MYSTIC_ARCH_STANDARD_NAME, which
\* get_standard_name() returns.
MYSTIC_ARCH_STANDARD_NAME(env, tag) ==
    LET standard == MacroValue(env, tag)
    IN  IF standard = MacroValue(env, "MYSTIC_ARCH_STANDARD_CPP20") THEN "C++20"
        ELSE IF standard = MacroValue(env, "MYSTIC_ARCH_STANDARD_CPP17") THEN "C++17"
        ELSE IF standard = MacroValue(env, "MYSTIC_ARCH_STANDARD_CPP14") THEN "C++14"
        ELSE IF standard = MacroValue(env, "MYSTIC_ARCH_STANDARD_CPP11") THEN "C++11"
        ELSE IF standard = MacroValue(env, "MYSTIC_ARCH_STANDARD_CPP98") THEN "C++98"
        ELSE "UNKNOWN"

\* The language versions compilers report, and values around them.
LangVersions ==
    {0, 199710, 199711, 199712, 201103, 201402, 201703, 202001, 202002,
     202003, 202302, 999999, 1000000}

\* The standard detection header is preprocessed. `rejects` tells whether
\* the compiler rejects a macro redefinition or only warns about it.
Preprocess_Standard(cplusplus, msvc_lang, allow_unknown, rejects) ==
    /\ build.header = "none"
    /\ LET v   == MYSTIC_CPP_LANG_VERSION(cplusplus, msvc_lang)
           env == StandardTags
           tag == MYSTIC_ARCH_STANDARD(env, v)
           error == IF rejects /\ Redefines(StandardTagDefines) THEN "redefinition"
                    ELSE IF StandardGuardrail(env, tag, allow_unknown) THEN "guardrail"
                    ELSE "none"
       IN  build' = [header |-> "standard_detection",
                     cplusplus |-> cplusplus, msvc_lang |-> msvc_lang,
                     version |-> v, allow_unknown |-> allow_unknown,
                     error |-> error,
                     tag |-> tag,
                     standard |-> MacroValue(env, tag),
                     name |-> MYSTIC_ARCH_STANDARD_NAME(env, tag)]
    /\ UNCHANGED <<obj, aborted, leaked, overwrote, badDtor, misuse, last, call, run>>

\* ------------------------------------------------- endianness detection
\* The "Endianness Tags" section.
EndiannessTagDefines ==
    << <<"MYSTIC_ARCH_ENDIANNESS_BIG", 0>>,
       <<"MYSTIC_ARCH_ENDIANNESS_LITTLE", 1>>,
       <<"MYSTIC_ARCH_ENDIANNESS_UNKNOWN", 2>> >>

EndiannessTags == DefineAll(NoMacros, EndiannessTagDefines)

\* The values of __BYTE_ORDER__ (those of __ORDER_LITTLE_ENDIAN__,
\* __ORDER_BIG_ENDIAN__ and __ORDER_PDP_ENDIAN__), or that it is not defined.
ByteOrders == {Undefined, 1234, 4321, 3412}

\* The #if chain that defines MYSTIC_ARCH_ENDIANNESS: the tag it is defined
\* as, or "" where the branch taken has no #define. `ind` holds
\* __BYTE_ORDER__ and whether each of the other indicators is defined.
MYSTIC_ARCH_ENDIANNESS(ind) ==
    IF ind.byte_order # Undefined /\ ind.byte_order = 1234
    THEN "MYSTIC_ARCH_ENDIANNESS_LITTLE"
    ELSE IF ind.byte_order # Undefined /\ ind.byte_order = 4321
    THEN "MYSTIC_ARCH_ENDIANNESS_BIG"
    ELSE IF ind.little_endian \/ ind.armel
    THEN "MYSTIC_ARCH_ENDIANNESS_LITTLE"
    ELSE IF ind.big_endian \/ ind.armeb
    THEN ""
    ELSE "MYSTIC_ARCH_ENDIANNESS_BIG"

\* The guardrail's #if: the #error is reached. An undefined
\* MYSTIC_ARCH_ENDIANNESS reads as 0 there.
EndiannessGuardrail(env, tag, allow_unknown) ==
    /\ ~allow_unknown
    /\ MacroValue(env, tag) = MacroValue(env, "MYSTIC_ARCH_ENDIANNESS_UNKNOWN")

\* The endianness detection header is preprocessed.
Preprocess_Endianness(ind, allow_unknown) ==
    /\ build.header = "none"
    /\ LET env == EndiannessTags
           tag == MYSTIC_ARCH_ENDIANNESS(ind)
       IN  build' = [header |-> "endianness_detection",
                     ind |-> ind, allow_unknown |-> allow_unknown,
                     defined |-> tag # "",
                     tag |-> tag,
                     endianness |-> MacroValue(env, tag),
                     error |-> IF EndiannessGuardrail(env, tag, allow_unknown)
                               THEN "guardrail" ELSE "none"]
    /\ UNCHANGED <<obj, aborted, leaked, overwrote, badDtor, misuse, last, call, run>>

\* The combinations of predefined endianness indicators.
Indicators ==
    [byte_order : ByteOrders, little_endian : BOOLEAN, armel : BOOLEAN,
     big_endian : BOOLEAN, armeb : BOOLEAN]

\* --------------------------------------------------- compiler detection
\* The "Compiler Tags" section of compiler_detection.hpp.
CompilerTagDefines ==
    << <<"MYSTIC_ARCH_COMPILER_HIPCC", 0>>,
       <<"MYSTIC_ARCH_COMPILER_NVCC", 1>>,
       <<"MYSTIC_ARCH_COMPILER_ICC", 2>>,
       <<"MYSTIC_ARCH_COMPILER_MSVC", 3>>,
       <<"MYSTIC_ARCH_COMPILER_CLANG", 4>>,
       <<"MYSTIC_ARCH_COMPILER_GCC", 5>>,
       <<"MYSTIC_ARCH_COMPILER_UNKNOWN", 6>> >>

\* The #if chain that defines MYSTIC_ARCH_COMPILER: the tag it is defined
\* as, from the set of macros the compiler predefines.
MYSTIC_ARCH_COMPILER(predefined) ==
    IF predefined \cap {"__HIP__", "__HIPCC__"} # {}
    THEN "MYSTIC_ARCH_COMPILER_HIPCC"
    ELSE IF predefined \cap {"__NVCC__", "__CUDACC__"} # {}
    THEN "MYSTIC_ARCH_COMPILER_NVCC"
    ELSE IF predefined \cap {"__INTEL_LLVM_COMPILER", "__INTEL_COMPILER"} # {}
    THEN "MYSTIC_ARCH_COMPILER_ICC"
    ELSE IF "_MSC_VER" \in predefined
    THEN "MYSTIC_ARCH_COMPILER_MSVC"
    ELSE IF "__clang__" \in predefined
    THEN "MYSTIC_ARCH_COMPILER_CLANG"
    ELSE IF "__GNUC__" \in predefined
    THEN "MYSTIC_ARCH_COMPILER_GCC"
    ELSE "MYSTIC_ARCH_COMPILER_UNKNOWN"

\* The macros defined once compiler_detection.hpp is included.
CompilerDetection(predefined) ==
    LET tags == DefineAll(NoMacros, CompilerTagDefines)
    IN  Define(tags, "MYSTIC_ARCH_COMPILER",
               MacroValue(tags, MYSTIC_ARCH_COMPILER(predefined)))

\* The compiler guardrail's #if: the #error is reached.
CompilerGuardrail(env, allow_unknown) ==
    /\ ~allow_unknown
    /\ MacroValue(env, "MYSTIC_ARCH_COMPILER")
          = MacroValue(env, "MYSTIC_ARCH_COMPILER_UNKNOWN")

\* The compilers, by the macros each predefines among those tested.
Compilers ==
    [GCC   |-> {"__GNUC__"},
     Clang |-> {"__clang__", "__GNUC__"},
     Intel |-> {"__INTEL_LLVM_COMPILER", "__clang__", "__GNUC__"},
     MSVC  |-> {"_MSC_VER"},
     Other |-> {}]

\* ------------------------------------------------ fixed-width integers
\* The sizes, in bytes, of the fundamental integer types of a platform.
Platforms ==
    [char : {1}, short : {2, 4}, int : {2, 4, 8}, long : {4, 8}, long_long : {8, 16}]

\* MYSTIC_INTERNAL_BYTE_SIZE_ONE .. _EIGHT
ByteSizeDefines ==
    << <<"MYSTIC_INTERNAL_BYTE_SIZE_ONE", 1>>,
       <<"MYSTIC_INTERNAL_BYTE_SIZE_TWO", 2>>,
       <<"MYSTIC_INTERNAL_BYTE_SIZE_FOUR", 4>>,
       <<"MYSTIC_INTERNAL_BYTE_SIZE_EIGHT", 8>> >>

\* The size macros the header tests. No compiler predefines macros of
\* these names (GCC and Clang predefine __SIZEOF_SHORT__, __SIZEOF_INT__,
\* ... with one underscore after SIZEOF); a build can define them itself.
SizeofDefines(sizes) ==
    << <<"__SIZEOF__CHAR__", sizes.char>>,
       <<"__SIZEOF__SHORT__", sizes.short>>,
       <<"__SIZEOF__INT__", sizes.int>>,
       <<"__SIZEOF__LONG__", sizes.long>>,
       <<"__SIZEOF__LONG_LONG__", sizes.long_long>> >>

\* The condition that selects the GCC / Clang / Intel branch.
UsesSizeofMacros(env) ==
    \/ MacroValue(env, "MYSTIC_INTERNAL_ARCH_COMPILER")
          = MacroValue(env, "MYSTIC_INTERNAL_ARCH_COMPILER_GCC")
    \/ MacroValue(env, "MYSTIC_INTERNAL_ARCH_COMPILER")
          = MacroValue(env, "MYSTIC_INTERNAL_ARCH_COMPILER_CLANG")
    \/ MacroValue(env, "MYSTIC_INTERNAL_ARCH_COMPILER")
          = MacroValue(env, "MYSTIC_INTERNAL_ARCH_COMPILER_ICPX")

\* A fundamental type that no alias names.
NoType == ""

\* The four #if blocks of the GCC / Clang / Intel branch: the fundamental
\* type each exact-width pair is an alias of, NoType where the block ends
\* in its #error.
ExactWidth_Macros(env) ==
    [w8  |-> IF MacroValue(env, "__SIZEOF__CHAR__")
                  = MacroValue(env, "MYSTIC_INTERNAL_BYTE_SIZE_ONE")
             THEN "char" ELSE NoType,
     w16 |-> IF MacroValue(env, "__SIZEOF__SHORT__")
                  = MacroValue(env, "MYSTIC_INTERNAL_BYTE_SIZE_TWO")
             THEN "short" ELSE NoType,
     w32 |-> IF MacroValue(env, "__SIZEOF__INT__")
                  = MacroValue(env, "MYSTIC_INTERNAL_BYTE_SIZE_FOUR")
             THEN "int"
             ELSE IF MacroValue(env, "__SIZEOF__LONG__")
                       = MacroValue(env, "MYSTIC_INTERNAL_BYTE_SIZE_FOUR")
             THEN "long" ELSE NoType,
     w64 |-> IF MacroValue(env, "__SIZEOF__LONG_LONG__")
                  = MacroValue(env, "MYSTIC_INTERNAL_BYTE_SIZE_EIGHT")
             THEN "long_long"
             ELSE IF MacroValue(env, "__SIZEOF__LONG__")
                       = MacroValue(env, "MYSTIC_INTERNAL_BYTE_SIZE_EIGHT")
             THEN "long" ELSE NoType]

\* The branch for all other compilers tests `sizeof(char) == ...` in #if:
\* sizeof is not an operator of the preprocessor, so no block of the
\* branch selects a type.
ExactWidth_Sizeof(env) ==
    [w8 |-> NoType, w16 |-> NoType, w32 |-> NoType, w64 |-> NoType]

\* The first #error a selection reaches, "none" when it reaches none.
FirstError(exact) ==
    IF exact.w8 = NoType THEN "8-bit"
    ELSE IF exact.w16 = NoType THEN "16-bit"
    ELSE IF exact.w32 = NoType THEN "32-bit"
    ELSE IF exact.w64 = NoType THEN "64-bit"
    ELSE "none"

\* namespace mystic::types::internal: the exact-width alias that each
\* alias of the namespace is declared as.
InternalAliases ==
    [int8_t |-> "int8_t", uint8_t |-> "uint8_t",
     int16_t |-> "int16_t", uint16_t |-> "uint16_t",
     int32_t |-> "int32_t", uint32_t |-> "uint32_t",
     int64_t |-> "int64_t", uint64_t |-> "uint64_t",
     int_least8_t |-> "int8_t", uint_least8_t |-> "uint8_t",
     int_least16_t |-> "int16_t", uint_least16_t |-> "uint16_t",
     int_least32_t |-> "int32_t", uint_least32_t |-> "uint32_t",
     int_least64_t |-> "int64_t", uint_least64_t |-> "uint64_t",
     int_fast8_t |-> "int32_t", uint_fast8_t |-> "uint32_t",
     int_fast16_t |-> "int32_t", uint_fast16_t |-> "uint32_t",
     int_fast32_t |-> "int32_t", uint_fast32_t |-> "uint32_t",
     int_fast64_t |-> "int64_t", uint_fast64_t |-> "uint64_t"]

\* namespace mystic::types: the alias of mystic::types::internal that each
\* public alias is declared as.
PublicAliases ==
    [int8_t |-> "int8_t", int16_t |-> "int16_t",
     int32_t |-> "int32_t", int64_t |-> "int64_t",
     uint8_t |-> "uint8_t", uint16_t |-> "uint16_t",
     uint32_t |-> "uint32_t", uint64_t |-> "uint64_t",
     int_least8_t |-> "int_least8_t", int_least16_t |-> "int_least16_t",
     int_least32_t |-> "int_least32_t", int_least64_t |-> "int_least64_t",
     uint_least8_t |-> "uint8_t", uint_least16_t |-> "uint_least16_t",
     uint_least32_t |-> "uint_least32_t", uint_least64_t |-> "uint_least64_t",
     int_fast8_t |-> "int_fast8_t", int_fast16_t |-> "int_fast16_t",
     int_fast32_t |-> "int_fast32_t", int_fast64_t |-> "int_fast64_t",
     uint_fast8_t |-> "uint8_t", uint_fast16_t |-> "uint_fast16_t",
     uint_fast32_t |-> "uint_fast32_t", uint_fast64_t |-> "uint_fast64_t"]

\* The width in bits of an exact-width alias: of the fundamental type it
\* is an alias of, 0 when it is not defined.
WidthOf(exact, sizes, name) ==
    LET base == CASE name \in {"int8_t", "uint8_t"}   -> exact.w8
                  [] name \in {"int16_t", "uint16_t"} -> exact.w16
                  [] name \in {"int32_t", "uint32_t"} -> exact.w32
                  [] name \in {"int64_t", "uint64_t"} -> exact.w64
    IN  IF base = NoType THEN 0 ELSE 8 * sizes[base]

\* standard_ints.hpp is preprocessed and compiled, with all it includes.
\* `defines_sizeof` tells whether the build defines the size macros.
Preprocess_StandardInts(compiler, sizes, defines_sizeof, allow_unknown) ==
    /\ build.header = "none"
    /\ LET detected == CompilerDetection(Compilers[compiler])
           sized == IF defines_sizeof
                    THEN DefineAll(detected, SizeofDefines(sizes)) ELSE detected
           env   == DefineAll(sized, ByteSizeDefines)
           exact == IF UsesSizeofMacros(env)
                    THEN ExactWidth_Macros(env) ELSE ExactWidth_Sizeof(env)
           error == IF CompilerGuardrail(detected, allow_unknown)
                    THEN "compiler" ELSE FirstError(exact)
       IN  build' = [header |-> "standard_ints",
                     compiler |-> compiler, sizes |-> sizes,
                     defines_sizeof |-> defines_sizeof,
                     allow_unknown |-> allow_unknown,
                     error |-> error,
                     internal |-> InternalAliases,
                     public |-> [x \in DOMAIN PublicAliases |->
                                    InternalAliases[PublicAliases[x]]],
                     width |-> [x \in {InternalAliases[a] : a \in DOMAIN InternalAliases}
                                  |-> WidthOf(exact, sizes, x)]]
    /\ UNCHANGED <<obj, aborted, leaked, overwrote, badDtor, misuse, last, call, run>>

NextBuild ==
    \/ \E c \in LangVersions, m \in LangVersions \cup {Undefined},
          a \in BOOLEAN, r \in BOOLEAN : Preprocess_Standard(c, m, a, r)
    \/ \E ind \in Indicators, a \in BOOLEAN : Preprocess_Endianness(ind, a)
    \/ \E c \in DOMAIN Compilers, s \in Platforms, d \in BOOLEAN, a \in BOOLEAN :
          Preprocess_StandardInts(c, s, d, a)

SpecBuild == Init /\ [][NextBuild]_vars

\* ================================================================ claims
AllDestroyed == \A s \in Slots : ~obj[s].alive

ValueOps == {"ValueConstRef", "ValueRef", "ValueRvalue"}

\* The operands of the last operation, before and after it.
PreDst  == last.pre[last.dst]
PreSrc  == last.pre[last.src]
PostDst == obj[last.dst]
PostSrc == obj[last.src]

\* What a caller can observe of a StatusOr in the reference model
\* Value(T) | Error(Status): ok(), the value when ok, the status.
Observable(o) ==
    [ok |-> ok(o),
     value |-> IF ok(o) THEN ReadStorage(o.m_Storage) ELSE {},
     code |-> status(o).m_Code,
     message |-> status(o).m_Message]

\* The same, with the status looked at only when not ok.
ObservableEither(o) ==
    IF ok(o)
    THEN [ok |-> TRUE, value |-> ReadStorage(o.m_Storage)]
    ELSE [ok |-> FALSE, code |-> status(o).m_Code, message |-> status(o).m_Message]

\* C1: no leak.  No T is ever constructed over a constructed T, and once
\* every container is destroyed no constructed T is left undestroyed.
C1_NoLeak ==
    /\ ~overwrote
    /\ AllDestroyed => leaked = 0

\* C2: as long as no StatusOr was constructed from an OK status, a
\* container for which ok() is false holds a status whose code is not OK.
C2_NotOkHoldsError ==
    ~misuse =>
        \A s \in Slots : (obj[s].alive /\ ~ok(obj[s])) => ~Status_ok(status(obj[s]))

\* C3: value(), in each of its three overloads, called on a container for
\* which ok() is false fires the fatal check and returns no T (in every
\* state reached without constructing a StatusOr from an OK status).
C3_ValueOnNotOkIsFatal ==
    (~misuse /\ last.op \in ValueOps /\ ~ok(PreDst)) => (last.fatal /\ aborted)

\* C4: T's destructor only ever runs on storage holding a constructed T,
\* and no T is destroyed twice: an operation that destroys a T destroys
\* exactly one, the one its container held, and a container that says it
\* holds a value has a constructed T in its storage.
C4_DtorOnlyOnConstructed ==
    /\ ~badDtor
    /\ last.nDtor > 0 =>
          /\ last.nDtor = 1
          /\ ok(PreDst)
          /\ PreDst.m_Storage.constructed
          /\ ~PostDst.m_Storage.constructed
    /\ \A s \in Slots : ok(obj[s]) => obj[s].m_Storage.constructed

\* A T was destroyed by an assignment, and by a container's destructor.
C4_Witness ==
    \/ last.op = "CopyAssign" /\ last.nDtor = 1 /\ leaked > 0
    \/ last.op = "Dtor" /\ last.nDtor = 1 /\ overwrote

\* C5: move-constructing c from a value-holding a gives c.ok() and
\* c.value() equal to a's value before the move (the condition value()
\* checks is true), and destroying a afterwards leaves c as it was.
C5_MoveCtorThenDtor ==
    /\ (last.op = "MoveCtor" /\ ok(PreSrc)) =>
          /\ ok(PostDst)
          /\ ValueCheck(PostDst)
          /\ ReadStorage(PostDst.m_Storage) = {PreSrc.m_Storage.val}
    /\ (last.op = "Dtor" /\ last.prev.op = "MoveCtor" /\ last.prev.hadValue) =>
          LET c == last.prev.dst
          IN  /\ obj[c] = last.pre[c]
              /\ ok(obj[c])
              /\ ValueCheck(obj[c])
              /\ obj[c].m_Storage.constructed

\* a was destroyed right after c was move-constructed from its value.
C5_Witness ==
    /\ last.op = "Dtor"
    /\ last.prev.op = "MoveCtor"
    /\ last.prev.hadValue
    /\ ok(obj[last.prev.dst])
    /\ obj[last.prev.dst].m_Storage.val = MaxVal

\* C6: after a = std::move(b), a and b distinct, a's observable state is
\* b's before the assignment and b.ok() is false; destroying b afterwards
\* leaves a as it was, its T still constructed.
C6_MoveAssign ==
    /\ (last.op = "MoveAssign" /\ last.dst # last.src) =>
          /\ ObservableEither(PostDst) = ObservableEither(PreSrc)
          /\ ~ok(PostSrc)
    /\ (last.op = "Dtor" /\ last.prev.op = "MoveAssign" /\ last.prev.dst # last.prev.src) =>
          LET a == last.prev.dst
          IN  /\ obj[a] = last.pre[a]
              /\ ok(obj[a]) => obj[a].m_Storage.constructed
              /\ ~badDtor

\* b was destroyed right after its value was move-assigned to a.
C6_Witness ==
    /\ last.op = "Dtor"
    /\ last.prev.op = "MoveAssign"
    /\ last.prev.dst # last.prev.src
    /\ last.prev.hadValue
    /\ ok(obj[last.prev.dst])

\* C7: after a = b, a and b distinct, whatever states they were in, a's
\* observable state (ok(), value, status code and message) is b's.
C7_CopyAssign ==
    (last.op = "CopyAssign" /\ last.dst # last.src) =>
        Observable(PostDst) = Observable(PreSrc)

\* A moved-from object was copy-assigned over a value-holding one.
C7_Witness ==
    /\ last.op = "CopyAssign"
    /\ last.dst # last.src
    /\ ok(PreDst)
    /\ ~ok(PreSrc)
    /\ Status_ok(status(PreSrc))
    /\ PreSrc.m_Storage.constructed

\* C8: copy-assigning a status-holding object over a value-holding one
\* destroys the old T exactly once, constructs none, and leaves the
\* target not ok() with the source's status (code and message).
C8_CopyAssignStatusOverValue ==
    (last.op = "CopyAssign" /\ last.dst # last.src /\ ok(PreDst) /\ ~ok(PreSrc)) =>
        /\ last.nDtor = 1
        /\ last.nCtor = 0
        /\ PreDst.m_Storage.constructed
        /\ ~PostDst.m_Storage.constructed
        /\ ~badDtor
        /\ ~ok(PostDst)
        /\ status(PostDst) = status(PreSrc)

\* A status with a message was copy-assigned over a value.
C8_Witness ==
    /\ last.op = "CopyAssign"
    /\ last.dst # last.src
    /\ ok(PreDst)
    /\ ~ok(PreSrc)
    /\ status(PreSrc).m_Code = MaxCode
    /\ status(PreSrc).m_Message # << >>

\* C9: copy-assigning a value-holding object over a status-holding one
\* constructs exactly one T, a copy of the source's, destroys none, and
\* leaves the target ok() with an OK status.
C9_CopyAssignValueOverStatus ==
    (last.op = "CopyAssign" /\ last.dst # last.src /\ ~ok(PreDst) /\ ok(PreSrc)) =>
        /\ last.nCtor = 1
        /\ last.nDtor = 0
        /\ PostDst.m_Storage = PlacementNew(PreSrc.m_Storage.val)
        /\ PostSrc = PreSrc
        /\ ok(PostDst)
        /\ Status_ok(status(PostDst))

\* A value was copy-assigned over a status with a message.
C9_Witness ==
    /\ last.op = "CopyAssign"
    /\ last.dst # last.src
    /\ ~ok(PreDst)
    /\ ~Status_ok(status(PreDst))
    /\ status(PreDst).m_Message # << >>
    /\ ok(PreSrc)
    /\ PreSrc.m_Storage.val = MaxVal

\* C10: rvalue value() on a value-holding container returns the held
\* value and leaves ok() false; a value access right after it is a
\* contract violation; the destructor then destroys no T a second time.
C10_RvalueValue ==
    /\ (last.op = "ValueRvalue" /\ ok(PreDst)) =>
          /\ ~last.fatal
          /\ last.ret = PreDst.m_Storage.val
          /\ ~ok(PostDst)
    /\ (last.op \in ValueOps /\ last.prev.op = "ValueRvalue" /\ last.prev.hadValue) =>
          last.fatal
    /\ (last.op = "Dtor" /\ last.prev.op = "ValueRvalue" /\ last.prev.hadValue) =>
          ~badDtor

\* What the value() overload of an operation's qualification does to the
\* object o: whether its check fires, the T it can return, the object it
\* can leave.
ValueLike(o, rvalue) ==
    [fatal |-> CheckFires(ValueCheck(o)),
     rets  |-> ReadStorage(o.m_Storage),
     posts |-> IF rvalue
               THEN {ValueRvalue_Object(o, left) : left \in MovedFromStorage(o.m_Storage)}
               ELSE {o}]

DerefOps == {"DerefConstRef", "DerefRef", "DerefRvalue"}
ArrowOps == {"ArrowConstRef", "ArrowRef"}

\* C11: operator* behaves as the value() overload of the same
\* qualification: the same fatal check, the same returned T and the same
\* resulting container (the rvalue operator* leaves it value-less);
\* operator-> reaches the same held T.
C11_DerefMirrorsValue ==
    /\ last.op \in DerefOps =>
          LET like == ValueLike(PreDst, last.op = "DerefRvalue")
          IN  /\ last.fatal = like.fatal
              /\ ~last.fatal => (last.ret \in like.rets /\ PostDst \in like.posts)
    /\ last.op \in ArrowOps =>
          LET like == ValueLike(PreDst, FALSE)
          IN  /\ last.fatal = like.fatal
              /\ ~last.fatal => (last.ret \in like.rets /\ PostDst \in like.posts)

\* C12: constructing a StatusOr from a Status whose code is OK fires the
\* fatal check; the status constructor produces no object.
C12_StatusCtorFromOkIsFatal ==
    (last.op = "StatusCtor" /\ Status_ok(last.argStatus)) =>
        /\ last.fatal
        /\ aborted
        /\ ~PostDst.alive

\* C13: a StatusOr constructed from the value v has ok() true, an OK
\* status, and value() returns v: the condition value() checks is true and
\* the stored T is v; value() on an object holding a value returns it.
C13_ValueRoundTrip ==
    /\ last.op = "ValueCtor" =>
          /\ ok(PostDst)
          /\ Status_ok(status(PostDst))
          /\ ValueCheck(PostDst)
          /\ ReadStorage(PostDst.m_Storage) = {last.arg}
    /\ (last.op = "ValueConstRef" /\ ok(PreDst) /\ ~last.fatal) =>
          last.ret = PreDst.m_Storage.val

\* A StatusOr was constructed from the largest value.
C13_Witness ==
    /\ last.op = "ValueCtor"
    /\ last.arg = MaxVal
    /\ ok(PostDst)

\* C14: a StatusOr constructed from a Status with a non-OK code is
\* constructed (no check fires), has ok() false and status() with the
\* code and the message given.
C14_StatusCtorKeepsStatus ==
    (last.op = "StatusCtor" /\ ~Status_ok(last.argStatus)) =>
        /\ ~last.fatal
        /\ PostDst.alive
        /\ ~ok(PostDst)
        /\ status(PostDst).m_Code = last.argStatus.m_Code
        /\ status(PostDst).m_Message = last.argStatus.m_Message

\* A StatusOr was constructed from a non-OK status with a message.
C14_Witness ==
    /\ last.op = "StatusCtor"
    /\ last.argStatus.m_Code = MaxCode
    /\ last.argStatus.m_Message # << >>
    /\ PostDst.alive

\* C15: value_or(d) never fires the fatal check, returns the held value
\* when ok() is true and returns d when ok() is false (for containers
\* built without breaking the status constructor's precondition).
C15_ValueOr ==
    (last.op = "ValueOr" /\ ~misuse) =>
        /\ ~last.fatal
        /\ ok(PreDst) => last.ret = PreDst.m_Storage.val
        /\ ~ok(PreDst) => last.ret = last.arg

\* C16: a container for which ok() is true has an OK status, in every
\* reachable state.
C16_OkHasOkStatus ==
    \A s \in Slots : (obj[s].alive /\ ok(obj[s])) => Status_ok(status(obj[s]))

\* A value was copy- or move-assigned over a non-OK status.
C16_Witness ==
    /\ last.op \in {"CopyAssign", "MoveAssign"}
    /\ last.dst # last.src
    /\ ~ok(PreDst)
    /\ ~Status_ok(status(PreDst))
    /\ ok(PostDst)

\* C17: in-place construction constructs exactly one T, in the storage,
\* from the arguments, calls no copy or move constructor of T, and gives
\* ok() true with an OK status.
C17_InPlaceCtor ==
    last.op = "InPlaceCtor" =>
        /\ last.nCtor = 1
        /\ last.nCopyMove = 0
        /\ PostDst.m_Storage = PlacementNew(last.arg)
        /\ ok(PostDst)
        /\ Status_ok(status(PostDst))

\* A StatusOr was constructed in place from the largest value.
C17_Witness ==
    /\ last.op = "InPlaceCtor"
    /\ last.arg = MaxVal
    /\ PostDst.alive

\* C18: Status(c, m).ok() is true exactly when c is OK, for every code and
\* message, and Status::OK().ok() is true.
C18_StatusOkIffCodeOk ==
    /\ call.fn = "Status" => (call.ok <=> call.code = OK)
    /\ call.fn = "Status::OK" => call.ok

\* ok() was asked of a Status with the last enumerator and no message.
C18_Witness ==
    /\ call.fn = "Status"
    /\ call.code = DATA_LOSS
    /\ call.message = << >>
    /\ ~call.ok

\* The display names of the 16 enumerators, in the order of their values.
DisplayNames ==
    <<"Ok", "Cancelled", "Invalid Argument", "Not Found", "Already Exists",
      "Permission Denied", "Unauthenticated", "Out of Range",
      "Deadline Exceeded", "Resource Exhausted", "Failed Precondition",
      "Aborted", "Unimplemented", "Internal", "Unavailable", "Data Loss">>

DisplayName(code) ==
    IF code \in OK..DATA_LOSS THEN DisplayNames[code + 1] ELSE "Unknown"

\* C19: the string StatusCodeToString returns for a code reads as the
\* display name of the code for each of the 16 enumerators, as "Unknown"
\* for every other value, and the 16 names are pairwise distinct.
C19_StatusCodeToString ==
    /\ call.fn = "StatusCodeToString" =>
          (~call.crashed /\ call.str = DisplayName(call.code))
    /\ \A c1, c2 \in OK..DATA_LOSS :
          c1 # c2 => StatusCodeToString_Literal(c1) # StatusCodeToString_Literal(c2)

\* C20: ToString() of a Status with code c and message m returns
\* "[" + name(c) + "] " + m; for an OK status without message, "[Ok] ".
C20_ToString ==
    call.fn = "ToString" =>
        /\ ~call.crashed
        /\ call.str = "[" \o DisplayName(call.code) \o "] " \o MsgString(call.message)
        /\ (call.code = OK /\ call.message = << >>) => call.str = "[Ok] "

\* C21: a default-constructed Status, Status::OK() and OkStatus() have
\* code OK and an empty message (and so are ok()).
C21_OkHasNoMessage ==
    call.fn \in {"Status()", "Status::OK", "OkStatus"} =>
        /\ call.code = OK
        /\ call.message = << >>
        /\ call.ok

\* OkStatus() was called and its result inspected.
C21_Witness ==
    /\ call.fn = "OkStatus"
    /\ call.ok

\* The 16 enumerator names, in the order of their values 0..15.
EnumeratorOrder ==
    <<"OK", "CANCELLED", "INVALID_ARGUMENT", "NOT_FOUND", "ALREADY_EXISTS",
      "PERMISSION_DENIED", "UNAUTHENTICATED", "OUT_OF_RANGE",
      "DEADLINE_EXCEEDED", "RESOURCE_EXHAUSTED", "FAILED_PRECONDITION",
      "ABORTED", "UNIMPLEMENTED", "INTERNAL", "UNAVAILABLE", "DATA_LOSS">>

\* C22: each definition of the enumeration has exactly the 16 enumerators
\* OK, CANCELLED, ..., DATA_LOSS with the values 0..15 in that order, so the
\* two definitions agree on every name and value.
C22_EnumeratorsAgree ==
    /\ \A h \in DOMAIN StatusCodeEnum :
          /\ Cardinality(DOMAIN StatusCodeEnum[h]) = 16
          /\ {StatusCodeEnum[h][n] : n \in DOMAIN StatusCodeEnum[h]} = 0..15
    /\ call.fn = "Enumerator" =>
          /\ call.ok <=> (\E i \in 1..16 : EnumeratorOrder[i] = call.str)
          /\ \A i \in 1..16 : EnumeratorOrder[i] = call.str => call.code = i - 1

\* The results evaluated so far are all ok.
AllEvaluatedOk ==
    \A i \in 1..Len(run.evaluated) : Status_ok(run.evaluated[i])

\* In every state of a function body: a result that is not ok is the last
\* one evaluated; a return hands out that result; control is past the last
\* line only with every operation evaluated and ok.
C23_Safety ==
    /\ \A i \in 1..Len(run.evaluated) :
          ~Status_ok(run.evaluated[i]) =>
              (i = Len(run.evaluated) /\ run.at \in {"if", "returned"})
    /\ run.at = "returned" =>
          /\ run.evaluated # << >>
          /\ run.ret = run.evaluated[Len(run.evaluated)]
          /\ ~Status_ok(run.ret)
    /\ run.at = "past" => (Len(run.evaluated) = run.n /\ AllEvaluatedOk)

\* C23: a body of MYSTIC_RETURN_IF_ERROR lines returns the status of the
\* first operation that is not ok and evaluates no later operation; when
\* every operation is ok, execution continues past the last line.
C23_ReturnIfError ==
    /\ []C23_Safety
    /\ (run.at = "if" /\ ~AllEvaluatedOk) ~> (run.at = "returned")
    /\ (run.at = "if" /\ AllEvaluatedOk /\ Len(run.evaluated) = run.n)
          ~> (run.at = "past")

\* A body of MaxOps lines returned at its last line, after ok results.
C23_Witness ==
    /\ run.at = "returned"
    /\ run.n = MaxOps
    /\ Len(run.evaluated) = MaxOps

\* C24: copy construction and copy assignment leave the source as it was:
\* flag, status code and message, and the T in its storage.
C24_CopyLeavesSource ==
    last.op \in {"CopyCtor", "CopyAssign"} =>
        /\ ~last.fatal
        /\ PostSrc = PreSrc
        /\ Observable(PostSrc) = Observable(PreSrc)

\* A value was copy-assigned from a value-holder over a status-holder.
C24_Witness ==
    /\ last.op = "CopyAssign"
    /\ last.dst # last.src
    /\ ok(PreSrc)
    /\ PreSrc.m_Storage.constructed
    /\ ~PreDst.m_IsValue
    /\ ok(PostDst)

\* C25: copy or move self-assignment changes nothing: no object changes,
\* and no T is constructed, copied, moved or destroyed.
C25_SelfAssign ==
    (last.op \in {"CopyAssign", "MoveAssign"} /\ last.dst = last.src) =>
        /\ ~last.fatal
        /\ obj = last.pre
        /\ last.nCtor = 0
        /\ last.nDtor = 0
        /\ last.nCopyMove = 0

\* A value-holder was move-assigned to itself.
C25_Witness ==
    /\ last.op = "MoveAssign"
    /\ last.dst = last.src
    /\ ok(PreDst)
    /\ PreDst.m_Storage.constructed

\* C26: moving from a StatusOr that holds a non-OK status leaves the source
\* not ok() with the same code, and gives the target that code and the
\* message the source had.
C26_MoveFromStatus ==
    (/\ last.op \in {"MoveCtor", "MoveAssign"}
     /\ last.dst # last.src
     /\ ~PreSrc.m_IsValue
     /\ ~Status_ok(PreSrc.m_Status)) =>
        /\ ~last.fatal
        /\ ~ok(PostSrc)
        /\ status(PostSrc).m_Code = PreSrc.m_Status.m_Code
        /\ ~ok(PostDst)
        /\ status(PostDst).m_Code = PreSrc.m_Status.m_Code
        /\ status(PostDst).m_Message = PreSrc.m_Status.m_Message

\* A status with a message was move-assigned over a value-holder.
C26_Witness ==
    /\ last.op = "MoveAssign"
    /\ last.dst # last.src
    /\ ~PreSrc.m_IsValue
    /\ PreSrc.m_Status.m_Code = MaxCode
    /\ PreSrc.m_Status.m_Message # << >>
    /\ ok(PreDst)

\* The standards the header knows, oldest first: tag, value, name.
KnownStandards ==
    << [tag |-> "MYSTIC_ARCH_STANDARD_CPP98", value |-> 199711, name |-> "C++98"],
       [tag |-> "MYSTIC_ARCH_STANDARD_CPP11", value |-> 201103, name |-> "C++11"],
       [tag |-> "MYSTIC_ARCH_STANDARD_CPP14", value |-> 201402, name |-> "C++14"],
       [tag |-> "MYSTIC_ARCH_STANDARD_CPP17", value |-> 201703, name |-> "C++17"],
       [tag |-> "MYSTIC_ARCH_STANDARD_CPP20", value |-> 202002, name |-> "C++20"] >>

\* The newest known standard whose value is <= v (0 when there is none).
NewestStandard(v) ==
    LET at == {i \in 1..Len(KnownStandards) : KnownStandards[i].value <= v}
    IN  IF at = {} THEN 0 ELSE CHOOSE i \in at : \A j \in at : j <= i

\* C27: for every language version v, MYSTIC_ARCH_STANDARD is the tag of
\* the newest known standard <= v, with its value and its name ("C++20"
\* for every v >= 202002); below 199711 it is UNKNOWN and compilation
\* stops unless MYSTIC_ARCH_ALLOW_UNKNOWN_STANDARD is defined; compilation
\* stops in no other case.
C27_StandardDetection ==
    build.header = "standard_detection" =>
        LET i == NewestStandard(build.version)
        IN  IF i = 0
            THEN /\ build.tag = "MYSTIC_ARCH_STANDARD_UNKNOWN"
                 /\ build.error = IF build.allow_unknown THEN "none" ELSE "guardrail"
            ELSE /\ build.tag = KnownStandards[i].tag
                 /\ build.standard = KnownStandards[i].value
                 /\ build.name = KnownStandards[i].name
                 /\ build.error = "none"

\* The indicators of a build say little-endian / big-endian.
SaysLittle(ind) == ind.byte_order = 1234 \/ ind.little_endian \/ ind.armel
SaysBig(ind)    == ind.byte_order = 4321 \/ ind.big_endian \/ ind.armeb

\* No indicator is present.
SaysNothing(ind) ==
    /\ ind.byte_order = Undefined
    /\ ~(ind.little_endian \/ ind.armel \/ ind.big_endian \/ ind.armeb)

\* C28: for every combination of indicators MYSTIC_ARCH_ENDIANNESS is
\* defined, as exactly one of the three tags: LITTLE when the indicators
\* say little-endian, BIG when they say big-endian, UNKNOWN when none is
\* present; compilation stops exactly when it is UNKNOWN and
\* MYSTIC_ARCH_ALLOW_UNKNOWN_ENDIANNESS is not defined.
C28_EndiannessDetection ==
    build.header = "endianness_detection" =>
        /\ build.defined
        /\ build.tag \in {"MYSTIC_ARCH_ENDIANNESS_LITTLE", "MYSTIC_ARCH_ENDIANNESS_BIG",
                          "MYSTIC_ARCH_ENDIANNESS_UNKNOWN"}
        /\ (SaysLittle(build.ind) /\ ~SaysBig(build.ind)) =>
               build.tag = "MYSTIC_ARCH_ENDIANNESS_LITTLE"
        /\ (SaysBig(build.ind) /\ ~SaysLittle(build.ind)) =>
               build.tag = "MYSTIC_ARCH_ENDIANNESS_BIG"
        /\ SaysNothing(build.ind) => build.tag = "MYSTIC_ARCH_ENDIANNESS_UNKNOWN"
        /\ (build.error = "guardrail") <=>
               (build.tag = "MYSTIC_ARCH_ENDIANNESS_UNKNOWN" /\ ~build.allow_unknown)

\* The families of integer aliases and the widths they come in.
AliasFamilies == <<"", "_least", "_fast">>
AliasWidths   == <<"8", "16", "32", "64">>
AliasName(sign, f, n) == sign \o AliasFamilies[f] \o AliasWidths[n] \o "_t"

\* C29: every public alias mystic::types::X names the type that
\* mystic::types::internal::X names; so in a build that compiles, the
\* signed and the unsigned alias of a family and N have the same width,
\* and the 8- and 16-bit fast aliases are 32 bits wide.
C29_PublicAliases ==
    build.header = "standard_ints" =>
        /\ DOMAIN build.public = DOMAIN build.internal
        /\ \A x \in DOMAIN build.public : build.public[x] = build.internal[x]
        /\ build.error = "none" =>
              /\ \A f \in 1..3, n \in 1..4 :
                    build.width[build.public[AliasName("int", f, n)]]
                      = build.width[build.public[AliasName("uint", f, n)]]
              /\ \A n \in 1..2 :
                    /\ build.width[build.public[AliasName("int", 3, n)]] = 32
                    /\ build.width[build.public[AliasName("uint", 3, n)]] = 32

\* The exact-width aliases and the width each promises.
ExactWidths ==
    [int8_t |-> 8, uint8_t |-> 8, int16_t |-> 16, uint16_t |-> 16,
     int32_t |-> 32, uint32_t |-> 32, int64_t |-> 64, uint64_t |-> 64]

\* C30: with GCC, Clang or an Intel compiler and char, short, int and
\* long long of 1, 2, 4 and 8 bytes, the header reaches no #error and
\* defines the eight exact-width aliases with exactly 8, 16, 32 and 64
\* bits; and no build that compiles has an alias of another width.
C30_ExactWidthSelection ==
    build.header = "standard_ints" =>
        /\ (/\ build.compiler \in {"GCC", "Clang", "Intel"}
            /\ build.sizes.char = 1
            /\ build.sizes.short = 2
            /\ build.sizes.int = 4
            /\ build.sizes.long_long = 8) => build.error = "none"
        /\ build.error = "none" =>
              \A x \in DOMAIN ExactWidths : build.width[x] = ExactWidths[x]

====
